---- MODULE Spec2Model ----
(***************************************************************************)
(* The asar container codec of math-with-slack.py: _walk_fileinfos,        *)
(* AsarExtractor (open / extract / __exit__) and AsarPacker (pack).        *)
(*                                                                         *)
(* Representation of the Python values:                                    *)
(*   - a file or an encoded text is a sequence of bytes (0..255);          *)
(*   - a file name or a dictionary key is a TLA+ string, whose UTF-8       *)
(*     bytes are given by the table Utf8; a computed string (a decimal     *)
(*     offset, a hex digest) is the sequence of its character codes;       *)
(*   - a path is the sequence of its components;                           *)
(*   - the "files" dictionary of a directory is the sequence of its        *)
(*     <<name, node>> items in insertion order; a file's fileinfo          *)
(*     dictionary is a record that has exactly the keys that were set;     *)
(*   - the file system is a function from paths to nodes, a directory      *)
(*     node holding its names in the order the OS lists them.              *)
(***************************************************************************)
EXTENDS Integers, Sequences, FiniteSets, TLC

VARIABLES
  platform,   \* sys.platform
  packArg,    \* the unpackeds argument the caller gives to pack
  fs,         \* the file system
  handles,    \* the file objects created by open, in order of creation
  reader,     \* the AsarExtractor instance the caller holds, or NoReader
  lastOp,     \* the operation that ran last, how it ended, what it returned
  packLog,    \* what each call of pack built, wrote and returned
  openedAt,   \* number of calls of pack made before the reader was opened
  extracts,   \* number of calls of extract so far
  corrupted,  \* positions of the archive changed since pack wrote it
  run         \* the runs of main: the one in progress and those that ended

vars ==
  <<platform, packArg, fs, handles, reader, lastOp, packLog, openedAt,
    extracts, corrupted, run>>

----------------------------------------------------------------------------
(* Bounds of the model *)

MaxFileLen == 3     \* longest source file, in bytes
MaxPacks == 2       \* calls of pack per run
MaxOpens == 2       \* calls of AsarExtractor.open per run
MaxExtracts == 2    \* calls of extract per run

----------------------------------------------------------------------------
(* Text and bytes *)

Utf8 ==
  [ files |-> <<102, 105, 108, 101, 115>>,
    size |-> <<115, 105, 122, 101>>,
    offset |-> <<111, 102, 102, 115, 101, 116>>,
    unpacked |-> <<117, 110, 112, 97, 99, 107, 101, 100>>,
    executable |-> <<101, 120, 101, 99, 117, 116, 97, 98, 108, 101>>,
    integrity |-> <<105, 110, 116, 101, 103, 114, 105, 116, 121>>,
    algorithm |-> <<97, 108, 103, 111, 114, 105, 116, 104, 109>>,
    hash |-> <<104, 97, 115, 104>>,
    blockSize |-> <<98, 108, 111, 99, 107, 83, 105, 122, 101>>,
    blocks |-> <<98, 108, 111, 99, 107, 115>>,
    SHA256 |-> <<83, 72, 65, 50, 53, 54>>,
    true |-> <<116, 114, 117, 101>>,
    false |-> <<102, 97, 108, 115, 101>>,
    a |-> <<97>>,
    b |-> <<98>>,
    c |-> <<99>>,
    d |-> <<100>>,
    s |-> <<115>>,
    t |-> <<116>>,
    MWSINJECT |-> <<77, 87, 83, 73, 78, 74, 69, 67, 84>>,
    dist |-> <<100, 105, 115, 116>> ] @@
  ("package.json" :>
     <<112, 97, 99, 107, 97, 103, 101, 46, 106, 115, 111, 110>>) @@
  ("preload.bundle.js" :>
     <<112, 114, 101, 108, 111, 97, 100, 46, 98, 117, 110, 100, 108, 101,
       46, 106, 115>>)

\* bytes.decode('utf-8') for the strings the model knows
Utf8Decode(bytes) == CHOOSE str \in DOMAIN Utf8 : Utf8[str] = bytes

\* the order of Python's str comparison (code point by code point)
RECURSIVE LexLess(_, _)
LexLess(u, v) ==
  IF v = <<>> THEN FALSE
  ELSE IF u = <<>> THEN TRUE
  ELSE IF Head(u) # Head(v) THEN Head(u) < Head(v)
  ELSE LexLess(Tail(u), Tail(v))

\* the concatenation of the sequences of seqs
RECURSIVE Flatten(_)
Flatten(seqs) ==
  IF seqs = <<>> THEN <<>>
  ELSE IF Len(seqs) = 1 THEN seqs[1]
  ELSE LET half == Len(seqs) \div 2
       IN Flatten(SubSeq(seqs, 1, half)) \o
          Flatten(SubSeq(seqs, half + 1, Len(seqs)))

\* str(n) for n >= 0
RECURSIVE Str(_)
Str(n) == IF n < 10 THEN <<48 + n>> ELSE Str(n \div 10) \o <<48 + (n % 10)>>

\* int(text) for a text of decimal digits
RECURSIVE Int_(_)
Int_(text) ==
  IF Len(text) = 1 THEN text[1] - 48
  ELSE 10 * Int_(SubSeq(text, 1, Len(text) - 1)) + (text[Len(text)] - 48)

HexDigit(n) == IF n < 10 THEN 48 + n ELSE 87 + n

\* SHA-256 is taken to be collision free: the digest of a byte string is
\* represented by the byte string itself, and hexdigest() writes it in hex.
Sha256(bytes) == bytes
HexDigest(digest) ==
  [i \in 1..(2 * Len(digest)) |->
     IF i % 2 = 1 THEN HexDigit(digest[(i + 1) \div 2] \div 16)
                  ELSE HexDigit(digest[i \div 2] % 16)]

\* struct.pack('<I', v) and struct.unpack('<I', bytes)
PackU32(v) ==
  <<v % 256, (v \div 256) % 256, (v \div 65536) % 256, (v \div 16777216) % 256>>
UnpackU32(bytes) ==
  bytes[1] + 256 * bytes[2] + 65536 * bytes[3] + 16777216 * bytes[4]

----------------------------------------------------------------------------
(* def roundup, def is_unpacked, def _walk_fileinfos *)

\* int(math.ceil(float(val) / divisor) * divisor)
\* rounding that always moves to the next multiple
roundup_next(val, divisor) == ((val \div divisor) + 1) * divisor

roundup(val, divisor) ==
  (IF val % divisor = 0 THEN val \div divisor ELSE (val \div divisor) + 1)
    * divisor

is_unpacked(fileinfo) ==
  IF "unpacked" \in DOMAIN fileinfo THEN fileinfo.unpacked ELSE FALSE

\* The list of the <<path, fileinfo>> pairs the generator yields.  The
\* recursive call passes root only: ignore_unpacked takes its default, False.
\* a walk that takes the keys of each directory from the last to the first
RECURSIVE _walk_fileinfos_reversed(_, _, _)
_walk_fileinfos_reversed(fileinfos, root, ignore_unpacked) ==
  LET items == fileinfos.files
      Visit(i) ==
        LET name == items[i][1]
            fileinfo == items[i][2]
            sub_path == root \o <<name>>
        IN IF "files" \in DOMAIN fileinfo
             THEN _walk_fileinfos_reversed(fileinfo, sub_path, FALSE)
           ELSE IF ignore_unpacked /\ is_unpacked(fileinfo) THEN <<>>
           ELSE << <<sub_path, fileinfo>> >>
  IN Flatten([i \in 1..Len(items) |-> Visit(Len(items) + 1 - i)])

RECURSIVE _walk_fileinfos(_, _, _)
_walk_fileinfos(fileinfos, root, ignore_unpacked) ==
  LET items == fileinfos.files
      Visit(i) ==
        LET name == items[i][1]
            fileinfo == items[i][2]
            sub_path == root \o <<name>>
        IN IF "files" \in DOMAIN fileinfo
             THEN _walk_fileinfos(fileinfo, sub_path, FALSE)
           ELSE IF ignore_unpacked /\ is_unpacked(fileinfo) THEN <<>>
           ELSE << <<sub_path, fileinfo>> >>
  IN Flatten([i \in 1..Len(items) |-> Visit(i)])

----------------------------------------------------------------------------
(* json.dumps(obj, sort_keys=True, separators=(',', ':')) and json.loads *)

JoinComma(texts) ==
  Flatten([i \in 1..Len(texts) |->
             IF i = 1 THEN texts[i] ELSE <<44>> \o texts[i]])

JsonString(text) == <<34>> \o text \o <<34>>
JsonMember(key, text) == JsonString(Utf8[key]) \o <<58>> \o text
JsonObject(members) == <<123>> \o JoinComma(members) \o <<125>>
JsonArray(texts) == <<91>> \o JoinComma(texts) \o <<93>>

\* the strings of S in Python's sorted() order
RECURSIVE SortedKeys(_)
SortedKeys(S) ==
  IF S = {} THEN <<>>
  ELSE LET m == CHOOSE x \in S :
                  \A y \in S \ {x} : LexLess(Utf8[x], Utf8[y])
       IN <<m>> \o SortedKeys(S \ {m})

\* the items of a dictionary in the order json.dumps writes them
ItemsToWrite(items, sort_keys) ==
  IF sort_keys
    THEN LET order == SortedKeys({items[i][1] : i \in 1..Len(items)})
         IN [k \in 1..Len(order) |->
               items[CHOOSE i \in 1..Len(items) : items[i][1] = order[k]]]
    ELSE items

JsonIntegrity(integrity) ==
  LET Field(key) ==
        CASE key = "algorithm" -> JsonString(integrity.algorithm)
          [] key = "hash" -> JsonString(integrity.hash)
          [] key = "blockSize" -> Str(integrity.blockSize)
          [] key = "blocks" ->
               JsonArray([i \in 1..Len(integrity.blocks) |->
                            JsonString(integrity.blocks[i])])
      keys == SortedKeys(DOMAIN integrity)
  IN JsonObject([k \in 1..Len(keys) |-> JsonMember(keys[k], Field(keys[k]))])

JsonFileinfo(fileinfo) ==
  LET Field(key) ==
        CASE key = "size" -> Str(fileinfo.size)
          [] key = "offset" -> JsonString(fileinfo.offset)
          [] key = "unpacked" ->
               IF fileinfo.unpacked THEN Utf8.true ELSE Utf8.false
          [] key = "executable" ->
               IF fileinfo.executable THEN Utf8.true ELSE Utf8.false
          [] key = "integrity" -> JsonIntegrity(fileinfo.integrity)
      keys == SortedKeys(DOMAIN fileinfo)
  IN JsonObject([k \in 1..Len(keys) |-> JsonMember(keys[k], Field(keys[k]))])

RECURSIVE JsonEncode(_, _)
JsonEncode(obj, sort_keys) ==
  IF "files" \in DOMAIN obj
    THEN LET items == ItemsToWrite(obj.files, sort_keys)
         IN JsonObject(<<JsonMember("files",
              JsonObject([i \in 1..Len(items) |->
                 JsonMember(items[i][1],
                            JsonEncode(items[i][2], sort_keys))]))>>)
    ELSE JsonFileinfo(obj)

json_dumps(obj) == JsonEncode(obj, TRUE)

\* json.loads of a text that json.dumps (or another asar writer) produced:
\* each parser returns the value read at index i and the index after it.
ParseString(text, i) ==
  LET j == CHOOSE j \in (i + 1)..Len(text) :
             text[j] = 34 /\ \A k \in (i + 1)..(j - 1) : text[k] # 34
  IN [val |-> SubSeq(text, i + 1, j - 1), next |-> j + 1]

ParseNumber(text, i) ==
  LET IsDigit(k) == k <= Len(text) /\ text[k] \in 48..57
      j == CHOOSE j \in (i + 1)..(Len(text) + 1) :
             ~IsDigit(j) /\ \A k \in i..(j - 1) : IsDigit(k)
  IN [val |-> Int_(SubSeq(text, i, j - 1)), next |-> j]

ParseBool(text, i) ==
  IF text[i] = 116 THEN [val |-> TRUE, next |-> i + 4]
                   ELSE [val |-> FALSE, next |-> i + 5]

RECURSIVE ParseStrings(_, _, _)
ParseStrings(text, i, acc) ==
  IF text[i] = 93 THEN [val |-> acc, next |-> i + 1]
  ELSE LET str == ParseString(text, i)
           acc2 == Append(acc, str.val)
       IN IF text[str.next] = 44
            THEN ParseStrings(text, str.next + 1, acc2)
            ELSE [val |-> acc2, next |-> str.next + 1]

RECURSIVE ParseMembers(_, _, _)
RECURSIVE ParseItems(_, _, _)
RECURSIVE ParseValue(_, _, _)

\* the value of a member, by its key
ParseValue(text, key, i) ==
  CASE key = "files" -> ParseItems(text, i + 1, <<>>)
    [] key \in {"size", "blockSize"} -> ParseNumber(text, i)
    [] key \in {"offset", "algorithm", "hash"} -> ParseString(text, i)
    [] key \in {"unpacked", "executable"} -> ParseBool(text, i)
    [] key = "integrity" -> ParseMembers(text, i + 1, <<>>)
    [] key = "blocks" -> ParseStrings(text, i + 1, <<>>)

\* the members of a fileinfo, integrity or directory object, from the index
\* after its opening brace
ParseMembers(text, i, acc) ==
  IF text[i] = 125 THEN [val |-> acc, next |-> i + 1]
  ELSE LET key == ParseString(text, i)
           name == Utf8Decode(key.val)
           member == ParseValue(text, name, key.next + 1)
           acc2 == (name :> member.val) @@ acc
       IN IF text[member.next] = 44
            THEN ParseMembers(text, member.next + 1, acc2)
            ELSE [val |-> acc2, next |-> member.next + 1]

\* the items of a "files" object, in the order of the text
ParseItems(text, i, acc) ==
  IF text[i] = 125 THEN [val |-> acc, next |-> i + 1]
  ELSE LET key == ParseString(text, i)
           name == Utf8Decode(key.val)
           node == ParseMembers(text, key.next + 2, <<>>)
           acc2 == Append(acc, <<name, node.val>>)
       IN IF text[node.next] = 44
            THEN ParseItems(text, node.next + 1, acc2)
            ELSE [val |-> acc2, next |-> node.next + 1]

json_loads(text) == ParseMembers(text, 2, <<>>).val

----------------------------------------------------------------------------
(* The file system: os.path, os.walk, open, seek, read, write *)

File(data, exec) == [kind |-> "file", data |-> data, exec |-> exec]
Dir(listing) == [kind |-> "dir", listing |-> listing]

\* the path the OS resolves: "." components name the directory itself
Norm(path) == SelectSeq(path, LAMBDA part : part # ".")
Parent(path) == SubSeq(path, 1, Len(path) - 1)

exists(f, path) == Norm(path) \in DOMAIN f
isdir(f, path) == exists(f, path) /\ f[Norm(path)].kind = "dir"
isfile(f, path) == exists(f, path) /\ f[Norm(path)].kind = "file"

\* os.path.relpath(path, start), for a path below start
relpath(path, start) ==
  LET rel == SubSeq(Norm(path), Len(Norm(start)) + 1, Len(Norm(path)))
  IN IF rel = <<>> THEN <<".">> ELSE rel

\* a new directory entry is listed after the entries already there
Link(f, path, node) ==
  LET p == Norm(path)
  IN IF p \in DOMAIN f THEN [f EXCEPT ![p] = node]
     ELSE (p :> node) @@
          [f EXCEPT ![Parent(p)].listing = Append(@, p[Len(p)])]

RECURSIVE makedirs(_, _)
makedirs(f, path) ==
  IF exists(f, path) THEN f
  ELSE Link(makedirs(f, Parent(Norm(path))), path, Dir(<<>>))

\* open(path, 'wb'): creates the file or truncates it
OpenForWrite(f, path) ==
  Link(f, path, File(<<>>, IF exists(f, path) THEN f[Norm(path)].exec
                           ELSE FALSE))

\* seek(pos) then write(bytes): a gap past the end reads as zero bytes
WriteAt(data, pos, bytes) ==
  LET before == SubSeq(data, 1, IF pos < Len(data) THEN pos ELSE Len(data))
      gap == [i \in 1..(pos - Len(data)) |-> 0]
      after == SubSeq(data, pos + Len(bytes) + 1, Len(data))
  IN before \o gap \o bytes \o after

\* seek(pos) then read(n): stops at the end of the file
ReadAt(data, pos, n) ==
  SubSeq(data, pos + 1, IF pos + n < Len(data) THEN pos + n ELSE Len(data))

\* the files and directories below directory, as they are on disk
Subtree(f, directory) ==
  LET below == {p \in DOMAIN f :
                  /\ Len(p) >= Len(directory)
                  /\ SubSeq(p, 1, Len(directory)) = directory}
  IN [p \in below |-> f[p]]

\* os.walk(top, topdown=True): the list of its (root, subdirs, files)
RECURSIVE os_walk(_, _)
os_walk(f, top) ==
  LET names == f[Norm(top)].listing
      subdirs == SelectSeq(names, LAMBDA n : isdir(f, top \o <<n>>))
      files == SelectSeq(names, LAMBDA n : ~isdir(f, top \o <<n>>))
  IN << <<top, subdirs, files>> >> \o
     Flatten([i \in 1..Len(subdirs) |-> os_walk(f, top \o <<subdirs[i]>>)])

----------------------------------------------------------------------------
(* Python dictionaries and iterables *)

DictHas(items, key) == \E i \in 1..Len(items) : items[i][1] = key
DictGet(items, key) ==
  items[CHOOSE i \in 1..Len(items) : items[i][1] = key][2]
\* a mapping that does not keep insertion order: a new key goes first
DictSetFront(items, key, val) ==
  IF DictHas(items, key)
    THEN [i \in 1..Len(items) |->
            IF items[i][1] = key THEN <<key, val>> ELSE items[i]]
    ELSE <<<<key, val>>>> \o items

\* items[key] = val: a new key goes last, an old key keeps its place
DictSet(items, key, val) ==
  IF DictHas(items, key)
    THEN [i \in 1..Len(items) |->
            IF items[i][1] = key THEN <<key, val>> ELSE items[i]]
    ELSE Append(items, <<key, val>>)

\* the unpackeds argument: a tuple (or set), or a generator that a
\* membership test advances
Tuple(items) == [kind |-> "tuple", items |-> items]
Generator(items) == [kind |-> "generator", items |-> items]

Contains(iterable, x) ==
  \E i \in 1..Len(iterable.items) : iterable.items[i] = x

\* the iterable after the test "x in iterable"
AfterContains(iterable, x) ==
  IF iterable.kind = "tuple" THEN iterable
  ELSE IF Contains(iterable, x)
    THEN LET i == CHOOSE i \in 1..Len(iterable.items) :
                    /\ iterable.items[i] = x
                    /\ \A j \in 1..(i - 1) : iterable.items[j] # x
         IN [iterable EXCEPT
               !.items = SubSeq(@, i + 1, Len(iterable.items))]
    ELSE [iterable EXCEPT !.items = <<>>]

RECURSIVE FoldLeft(_, _, _)
FoldLeft(Op(_, _), acc, seq) ==
  IF seq = <<>> THEN acc ELSE FoldLeft(Op, Op(acc, Head(seq)), Tail(seq))

----------------------------------------------------------------------------
(* class AsarPacker *)

\* 4 * 1024 * 1024 in the source; scaled down so that files of the model
\* span several blocks
BLOCK_SIZE == 2

\* a reading loop that stops at the first block shorter than the block size
RECURSIVE ReadBlocksFullOnly(_, _)
ReadBlocksFullOnly(data, size) ==
  IF Len(data) < size THEN <<>>
  ELSE <<SubSeq(data, 1, size)>> \o
       ReadBlocksFullOnly(SubSeq(data, size + 1, Len(data)), size)

RECURSIVE ReadBlocks(_, _)
ReadBlocks(data, size) ==
  IF data = <<>> THEN <<>>
  ELSE <<SubSeq(data, 1, IF size < Len(data) THEN size ELSE Len(data))>> \o
       ReadBlocks(SubSeq(data, size + 1, Len(data)), size)

__get_file_integrity(f, file) ==
  LET blocks == ReadBlocks(f[Norm(file)].data, BLOCK_SIZE)
  IN [algorithm |-> Utf8.SHA256,
      hash |-> HexDigest(Sha256(Flatten(blocks))),
      blockSize |-> BLOCK_SIZE,
      blocks |-> [i \in 1..Len(blocks) |-> HexDigest(Sha256(blocks[i]))]]

\* fileinfo[key] = val, for the fileinfo at path in the tree
RECURSIVE SetKey(_, _, _, _)
SetKey(node, path, key, val) ==
  IF path = <<>> THEN (key :> val) @@ node
  ELSE [files |-> DictSet(node.files, Head(path),
                          SetKey(DictGet(node.files, Head(path)),
                                 Tail(path), key, val))]

__add_file_integrities(f, directory, fileinfos) ==
  FoldLeft(LAMBDA tree, v :
             SetKey(tree, Norm(v[1]), "integrity",
                    __get_file_integrity(f, directory \o v[1])),
           fileinfos,
           _walk_fileinfos(fileinfos, <<".">>, TRUE))

\* dirinfo[key] = val, where dirinfo is
\* reduce(lambda dirinfo, part: dirinfo[part]['files'], parts, fileinfos)
RECURSIVE SetIn(_, _, _, _)
SetIn(items, parts, key, val) ==
  IF parts = <<>> THEN DictSet(items, key, val)
  ELSE DictSet(items, Head(parts),
               [files |-> SetIn(DictGet(items, Head(parts)).files,
                                Tail(parts), key, val)])

\* a running offset kept across calls of pack: a call starts where the call
\* before it stopped
EndOffset(walk) ==
  FoldLeft(LAMBDA n, v : IF "offset" \in DOMAIN v[2] THEN n + v[2].size ELSE n,
           0, walk)
StartOffsetKept ==
  IF packLog = <<>> THEN 0 ELSE EndOffset(packLog[Len(packLog)].walk)

\* the offset the first packed file gets
StartOffset == 0

\* a turn of the loop that gives an unpacked file an offset as well
AddFileOffsetAlways(f, directory, root, parts, acc, file) ==
  LET file_path == root \o <<file>>
      file_size == Len(f[Norm(file_path)].data)
      rel == relpath(file_path, directory)
      unpacked == Contains(acc.unpackeds, rel)
      fileinfo == IF unpacked
                    THEN [size |-> file_size, unpacked |-> TRUE,
                          offset |-> Str(acc.offset)]
                    ELSE [size |-> file_size, offset |-> Str(acc.offset)]
      fileinfo2 == IF platform # "win32" /\ f[Norm(file_path)].exec
                     THEN ("executable" :> TRUE) @@ fileinfo
                     ELSE fileinfo
  IN [fileinfos |-> SetIn(acc.fileinfos, parts, file, fileinfo2),
      offset |-> IF unpacked THEN acc.offset ELSE acc.offset + file_size,
      unpackeds |-> AfterContains(acc.unpackeds, rel)]

\* a turn of the loop that never advances the offset
AddFileNoAdvance(f, directory, root, parts, acc, file) ==
  LET file_path == root \o <<file>>
      file_size == Len(f[Norm(file_path)].data)
      rel == relpath(file_path, directory)
      unpacked == Contains(acc.unpackeds, rel)
      fileinfo == IF unpacked
                    THEN [size |-> file_size, unpacked |-> TRUE]
                    ELSE [size |-> file_size, offset |-> Str(acc.offset)]
      fileinfo2 == IF platform # "win32" /\ f[Norm(file_path)].exec
                     THEN ("executable" :> TRUE) @@ fileinfo
                     ELSE fileinfo
  IN [fileinfos |-> SetIn(acc.fileinfos, parts, file, fileinfo2),
      offset |-> acc.offset,
      unpackeds |-> AfterContains(acc.unpackeds, rel)]

\* a turn of the loop that advances the offset past an unpacked file too
AddFileCountsUnpacked(f, directory, root, parts, acc, file) ==
  LET file_path == root \o <<file>>
      file_size == Len(f[Norm(file_path)].data)
      rel == relpath(file_path, directory)
      unpacked == Contains(acc.unpackeds, rel)
      fileinfo == IF unpacked
                    THEN [size |-> file_size, unpacked |-> TRUE]
                    ELSE [size |-> file_size, offset |-> Str(acc.offset)]
      fileinfo2 == IF platform # "win32" /\ f[Norm(file_path)].exec
                     THEN ("executable" :> TRUE) @@ fileinfo
                     ELSE fileinfo
  IN [fileinfos |-> SetIn(acc.fileinfos, parts, file, fileinfo2),
      offset |-> acc.offset + file_size,
      unpackeds |-> AfterContains(acc.unpackeds, rel)]

\* one turn of "for file in files": acc holds fileinfos, offset, unpackeds
AddFile(f, directory, root, parts, acc, file) ==
  LET file_path == root \o <<file>>
      file_size == Len(f[Norm(file_path)].data)
      rel == relpath(file_path, directory)
      unpacked == Contains(acc.unpackeds, rel)
      fileinfo == IF unpacked
                    THEN [size |-> file_size, unpacked |-> TRUE]
                    ELSE [size |-> file_size, offset |-> Str(acc.offset)]
      fileinfo2 == IF platform # "win32" /\ f[Norm(file_path)].exec
                     THEN ("executable" :> TRUE) @@ fileinfo
                     ELSE fileinfo
  IN [fileinfos |-> SetIn(acc.fileinfos, parts, file, fileinfo2),
      offset |-> IF unpacked THEN acc.offset ELSE acc.offset + file_size,
      unpackeds |-> AfterContains(acc.unpackeds, rel)]

\* one turn of "for root, subdirs, files in os.walk(directory)"
AddDirectory(f, directory, acc, triple) ==
  LET root == triple[1]
      rel == relpath(root, directory)
      parts == IF root # directory THEN <<".">> \o rel ELSE rel
      acc2 == FoldLeft(LAMBDA a, file :
                         AddFile(f, directory, root, parts, a, file),
                       acc, triple[3])
  IN [acc2 EXCEPT !.fileinfos =
        FoldLeft(LAMBDA items, subdir :
                   SetIn(items, parts, subdir, [files |-> <<>>]),
                 acc2.fileinfos, triple[2])]

__dir_to_fileinfos(f, directory, unpackeds) ==
  LET acc == FoldLeft(LAMBDA a, triple : AddDirectory(f, directory, a, triple),
                      [fileinfos |-> << <<".", [files |-> <<>>]>> >>,
                       offset |-> StartOffset,
                       unpackeds |-> unpackeds],
                      os_walk(f, directory))
  IN [fileinfos |-> __add_file_integrities(f, directory,
                                           DictGet(acc.fileinfos, ".")),
      unpackeds |-> acc.unpackeds]

\* "for path, fileinfo in _walk_fileinfos(fileinfos, ignore_unpacked=True)"
\* of pack: fileinfo['offset'] raises KeyError when the key is missing
RECURSIVE WriteFiles(_, _, _, _, _)
WriteFiles(f, directory, out_asar, baseoffset, walk) ==
  IF walk = <<>> THEN [fs |-> f, status |-> "ok"]
  ELSE LET path == Head(walk)[1]
           fileinfo == Head(walk)[2]
       IN IF "offset" \notin DOMAIN fileinfo
            THEN [fs |-> f, status |-> "KeyError"]
            ELSE WriteFiles(
                   [f EXCEPT ![Norm(out_asar)].data =
                      WriteAt(@, Int_(fileinfo.offset) + baseoffset,
                              f[Norm(directory \o path)].data)],
                   directory, out_asar, baseoffset, Tail(walk))

\* pack(directory, out_asar, unpackeds): the file system it leaves, how it
\* ends, and what it built and returns
\* a preamble whose third field leaves out the four bytes of the length
\* prefix of the JSON text
PreambleTextOnly(header_string_size) ==
  LET data_size == 4
      aligned_size == roundup(header_string_size, data_size)
  IN PackU32(data_size) \o PackU32(aligned_size + 4) \o
     PackU32(aligned_size) \o PackU32(header_string_size)

\* a preamble whose second field repeats the third
PreambleSameSizes(header_string_size) ==
  LET data_size == 4
      aligned_size == roundup(header_string_size, data_size)
      header_object_size == aligned_size + data_size
  IN PackU32(data_size) \o PackU32(header_object_size) \o
     PackU32(header_object_size) \o PackU32(header_string_size)

\* struct.pack('<4I', data_size, header_size, header_object_size,
\* header_string_size) of pack
Preamble(header_string_size) ==
  LET data_size == 4
      aligned_size == roundup(header_string_size, data_size)
      header_size == aligned_size + 8
      header_object_size == aligned_size + data_size
  IN PackU32(data_size) \o PackU32(header_size) \o
     PackU32(header_object_size) \o PackU32(header_string_size)

\* b'\0' * (aligned_size - header_string_size)
Padding(header_string_size) ==
  LET aligned_size == roundup(header_string_size, 4)
  IN [i \in 1..(aligned_size - header_string_size) |-> 0]

pack(f, directory, out_asar, unpackeds) ==
  LET f1 == OpenForWrite(f, out_asar)
      built == __dir_to_fileinfos(f1, directory, unpackeds)
      fileinfos == built.fileinfos
      json_header_bytes == json_dumps(fileinfos)
      header_string_size == Len(json_header_bytes)
      preamble == Preamble(header_string_size)
      padding == Padding(header_string_size)
      f2 == [f1 EXCEPT ![Norm(out_asar)].data =
               WriteAt(WriteAt(@, 0, preamble), 16,
                       json_header_bytes \o padding)]
      baseoffset == roundup(header_string_size + 16, 4)
      walk == _walk_fileinfos(fileinfos, <<".">>, TRUE)
      written == WriteFiles(f2, directory, out_asar, baseoffset, walk)
  IN [fs |-> written.fs,
      status |-> written.status,
      fileinfos |-> fileinfos,
      walk |-> walk,
      json_header_bytes |-> json_header_bytes,
      padding |-> padding,
      baseoffset |-> baseoffset,
      unpackeds |-> built.unpackeds,
      digest |-> IF written.status = "ok"
                   THEN HexDigest(Sha256(json_header_bytes)) ELSE <<>>]

----------------------------------------------------------------------------
(* class AsarExtractor *)

NoReader == [none |-> TRUE]
None == 0

\* the first assert statement alone
CheckPreambleFirstOnly(header_data_size, json_binary_size, json_data_size) ==
  header_data_size = 4

\* the two assert statements of open
CheckPreamble(header_data_size, json_binary_size, json_data_size) ==
  /\ header_data_size = 4
  /\ json_binary_size = json_data_size + 4

\* AsarExtractor.open(filename): hs is the list of the file objects created
\* so far.  A file object that open created stays open unless closed here.
\* (The archives of the model hold well-formed JSON behind a preamble that
\* passes the asserts, so decode and json.loads do not raise.)
open(f, hs, filename) ==
  IF ~isfile(f, filename)
    THEN [status |-> "IOError", handles |-> hs, reader |-> NoReader]
  ELSE
    LET data == f[Norm(filename)].data
        asarfile == Len(hs) + 1
        Opened(pos) ==
          Append(hs, [path |-> Norm(filename), pos |-> pos, closed |-> FALSE])
        head == ReadAt(data, 0, 16)
    IN IF Len(head) < 16
         THEN [status |-> "struct.error", handles |-> Opened(Len(head)),
               reader |-> NoReader]
       ELSE
         LET header_data_size == UnpackU32(SubSeq(head, 1, 4))
             json_binary_size == UnpackU32(SubSeq(head, 5, 8))
             json_data_size == UnpackU32(SubSeq(head, 9, 12))
             json_string_size == UnpackU32(SubSeq(head, 13, 16))
         IN IF ~CheckPreamble(header_data_size, json_binary_size,
                              json_data_size)
              THEN [status |-> "AssertionError", handles |-> Opened(16),
                    reader |-> NoReader]
            ELSE
              LET json_header_bytes == ReadAt(data, 16, json_string_size)
                  files == json_loads(json_header_bytes)
                  baseoffset == roundup(16 + json_string_size, 4)
              IN [status |-> "ok",
                  handles |-> Opened(16 + Len(json_header_bytes)),
                  reader |-> [filename |-> filename,
                              asarfile |-> asarfile,
                              files |-> files,
                              baseoffset |-> baseoffset]]

\* the offset of the header taken as a position in the file
__absolute_offset_relative(rdr, offset) == Int_(offset)

__absolute_offset(rdr, offset) == Int_(offset) + rdr.baseoffset

\* a copy without the two existence checks: shutil.copyfile raises when the
\* support file is missing
__copy_unpacked_unchecked(rdr, st, path, destination) ==
  LET unpacked_dir ==
        [rdr.filename EXCEPT ![Len(rdr.filename)] = @ \o ".unpacked"]
      source_path == unpacked_dir \o path
      destination_path == destination \o path
  IN IF ~isfile(st.fs, source_path)
       THEN [st EXCEPT !.status = "IOError"]
     ELSE [st EXCEPT !.fs =
             Link(@, destination_path,
                  File(st.fs[Norm(source_path)].data,
                       IF exists(st.fs, destination_path)
                         THEN st.fs[Norm(destination_path)].exec
                         ELSE FALSE))]

\* st is the state an extraction has reached: the file system, the file
\* objects, the paths warned about, and "ok" or the exception raised
__copy_unpacked(rdr, st, path, destination) ==
  LET unpacked_dir ==
        [rdr.filename EXCEPT ![Len(rdr.filename)] = @ \o ".unpacked"]
      source_path == unpacked_dir \o path
      destination_path == destination \o path
  IN IF ~isdir(st.fs, unpacked_dir)
       THEN [st EXCEPT !.warnings = Append(@, path)]
     ELSE IF ~exists(st.fs, source_path)
       THEN [st EXCEPT !.warnings = Append(@, path)]
     ELSE [st EXCEPT !.fs =
             Link(@, destination_path,
                  File(st.fs[Norm(source_path)].data,
                       IF exists(st.fs, destination_path)
                         THEN st.fs[Norm(destination_path)].exec
                         ELSE FALSE))]

__extract_file(rdr, st, path, fileinfo, destination) ==
  IF is_unpacked(fileinfo) THEN __copy_unpacked(rdr, st, path, destination)
  ELSE IF rdr.asarfile = None THEN [st EXCEPT !.status = "AttributeError"]
  ELSE IF "offset" \notin DOMAIN fileinfo
    THEN [st EXCEPT !.status = "KeyError"]
  ELSE
    LET pos == __absolute_offset(rdr, fileinfo.offset)
        asar == st.fs[st.handles[rdr.asarfile].path].data
        contents == ReadAt(asar, pos, fileinfo.size)
        destination_path == destination \o path
        executable == IF "executable" \in DOMAIN fileinfo
                        THEN fileinfo.executable ELSE FALSE
        written == [OpenForWrite(st.fs, destination_path)
                      EXCEPT ![Norm(destination_path)].data = contents]
    IN [st EXCEPT
          !.handles[rdr.asarfile].pos = pos + Len(contents),
          !.fs = IF platform # "win32" /\ executable
                   THEN [written EXCEPT ![Norm(destination_path)].exec = TRUE]
                   ELSE written]

RECURSIVE __extract_directory(_, _, _, _, _)
__extract_directory(rdr, st, path, files, destination) ==
  LET destination_path == destination \o path
      st1 == IF ~exists(st.fs, destination_path)
               THEN [st EXCEPT !.fs = makedirs(@, destination_path)]
               ELSE st
  IN FoldLeft(LAMBDA acc, item :
                IF acc.status # "ok" THEN acc
                ELSE IF "files" \in DOMAIN item[2]
                  THEN __extract_directory(rdr, acc, path \o <<item[1]>>,
                                           item[2].files, destination)
                  ELSE __extract_file(rdr, acc, path \o <<item[1]>>,
                                      item[2], destination),
              st1, files)

\* os.path.isfile(destination) in place of os.path.exists(destination)
DestinationIsFile(f, destination) == isfile(f, destination)

\* os.path.exists(destination), the precondition of extract
DestinationExists(f, destination) == exists(f, destination)

extract(rdr, f, hs, destination) ==
  LET st == [fs |-> f, handles |-> hs, warnings |-> <<>>, status |-> "ok"]
  IN IF DestinationExists(f, destination)
       THEN [st EXCEPT !.status = "OSError"]
       ELSE __extract_directory(rdr, st, <<".">>, rdr.files.files,
                                destination)

\* an __exit__ that closes the file object and keeps the reference to it
__exit__keeps_file(rdr, hs) ==
  IF rdr.asarfile = None
    THEN [reader |-> rdr, handles |-> hs, status |-> "ok"]
    ELSE [reader |-> rdr,
          handles |-> [hs EXCEPT ![rdr.asarfile].closed = TRUE],
          status |-> "ok"]

\* get_unpackeds(): the relative paths a fresh generator yields, in order
get_unpackeds(rdr) ==
  LET walk == _walk_fileinfos(rdr.files, <<".">>, FALSE)
      flagged == SelectSeq(walk, LAMBDA v : is_unpacked(v[2]))
  IN [k \in 1..Len(flagged) |-> relpath(flagged[k][1], <<".">>)]

\* __exit__: the reader and the file objects after the with statement ends
__exit__(rdr, hs) ==
  IF rdr.asarfile = None
    THEN [reader |-> rdr, handles |-> hs, status |-> "ok"]
    ELSE [reader |-> [rdr EXCEPT !.asarfile = None],
          handles |-> [hs EXCEPT ![rdr.asarfile].closed = TRUE],
          status |-> "ok"]

----------------------------------------------------------------------------
(* main and the functions it calls *)

\* K(x) for the one x in S: x is computed once, as an assignment to a
\* local variable computes its right-hand side once
Bind(S, K(_)) == CHOOSE out \in {K(x) : x \in S} : TRUE

\* f on the paths of S alone
RECURSIVE Restrict(_, _)
Restrict(f, S) ==
  IF S = {} THEN <<>>
  ELSE Bind({CHOOSE q \in S : TRUE},
            LAMBDA q : (q :> f[q]) @@ Restrict(f, S \ {q}))

\* os.remove(path) and shutil.rmtree(path)
Unlink(f, path) ==
  Bind({Norm(path)}, LAMBDA p :
    Restrict([f EXCEPT ![Parent(p)].listing =
                         SelectSeq(@, LAMBDA n : n # p[Len(p)])],
             {q \in DOMAIN f : ~(Len(q) >= Len(p) /\ SubSeq(q, 1, Len(p)) = p)}))

\* a file object of this process is open on path
OpenHandleOn(hs, path) ==
  \E h \in 1..Len(hs) : ~hs[h].closed /\ hs[h].path = Norm(path)

\* the file objects after the process has ended
CloseAll(hs) == [h \in 1..Len(hs) |-> [hs[h] EXCEPT !.closed = TRUE]]

\* tempfile.mkdtemp(): a directory under a name no earlier run has used, so
\* that nothing an earlier run left behind is in it
TMP == <<"tmp">>
mkdtemp(f) ==
  Link(IF exists(f, TMP) THEN Unlink(f, TMP) ELSE f, TMP, Dir(<<>>))

\* exprint ends the process with sys.exit(1)
check_permission(f, file_path, write) ==
  IF ~isfile(f, file_path) THEN [fs |-> f, status |-> "exit"]
  ELSE IF write
    THEN [fs |-> [f EXCEPT ![Norm(file_path)].data = ReadAt(@, 0, Len(@))],
          status |-> "ok"]
    ELSE [fs |-> f, status |-> "ok"]

get_backup_path(orig_path) ==
  [orig_path EXCEPT ![Len(orig_path)] = @ \o ".mwsbak"]

make_backup(f, orig_path) ==
  LET backup_path == get_backup_path(orig_path)
  IN IF ~isfile(f, orig_path) THEN [fs |-> f, status |-> "exit"]
     ELSE [fs |-> Link(f, backup_path,
                       File(f[Norm(orig_path)].data, f[Norm(orig_path)].exec)),
           status |-> "ok"]

\* os.remove raises on Windows when the file is in use (Python Library
\* Reference, os.remove); a file object of this process that is still open
\* on orig_file keeps it in use. The except clause then calls exprint.
restore_from_backup(f, hs, orig_file) ==
  LET backup_path == get_backup_path(orig_file)
  IN IF ~isfile(f, backup_path) THEN [fs |-> f, status |-> "exit"]
     ELSE IF ~isfile(f, orig_file) THEN [fs |-> f, status |-> "exit"]
     ELSE IF platform = "win32" /\ OpenHandleOn(hs, orig_file)
       THEN [fs |-> f, status |-> "exit"]
     ELSE [fs |-> Link(Unlink(Unlink(f, orig_file), backup_path), orig_file,
                       f[Norm(backup_path)]),
           status |-> "ok"]

remove_backup(f, orig_file) ==
  LET backup_path == get_backup_path(orig_file)
  IN IF isfile(f, backup_path) THEN Unlink(f, backup_path) ELSE f

\* a test that never finds the marker
is_previously_modified_never(f, hs, app_path) ==
  Bind({open(f, hs, app_path)}, LAMBDA r :
    IF r.status # "ok"
      THEN [status |-> r.status, handles |-> r.handles, value |-> FALSE]
      ELSE [status |-> "ok",
            handles |-> __exit__(r.reader, r.handles).handles,
            value |-> FALSE])

is_previously_modified(f, hs, app_path) ==
  Bind({open(f, hs, app_path)}, LAMBDA r :
    IF r.status # "ok"
      THEN [status |-> r.status, handles |-> r.handles, value |-> FALSE]
      ELSE [status |-> "ok",
            handles |-> __exit__(r.reader, r.handles).handles,
            value |-> DictHas(r.reader.files.files, "MWSINJECT")])

extract_asar(f, hs, tmp_dir, app_path) ==
  LET asar_extracted_dir == tmp_dir \o <<"app.asar.unpacked">>
  IN Bind({open(f, hs, app_path)}, LAMBDA r :
       IF r.status # "ok"
         THEN [fs |-> f, handles |-> r.handles, status |-> r.status,
               reader |-> NoReader, dir |-> asar_extracted_dir]
         ELSE
           Bind({[r.reader EXCEPT !.filename = app_path]},
                LAMBDA asar_extractor :
             Bind({extract(asar_extractor, f, r.handles, asar_extracted_dir)},
                  LAMBDA e :
               [fs |-> e.fs, handles |-> e.handles, status |-> e.status,
                reader |-> asar_extractor, dir |-> asar_extracted_dir])))

\* package.json is kept as the two numbers of its "version"
read_slack_version(f, asar_extracted_dir) ==
  LET path == asar_extracted_dir \o <<"package.json">>
  IN IF ~isfile(f, path) THEN [status |-> "IOError", version |-> <<>>]
     ELSE IF Len(f[Norm(path)].data) < 2
       THEN [status |-> "ValueError", version |-> <<>>]
     ELSE [status |-> "ok", version |-> SubSeq(f[Norm(path)].data, 1, 2)]

\* slack_version <= LooseVersion('4.4') is unsupported
Unsupported(version) ==
  version[1] < 4 \/ (version[1] = 4 /\ version[2] <= 4)

\* the bytes get_injected_code returns: they begin "\n\n// math-with-slack"
InjectCode == <<10, 10, 47, 47>>

\* main up to and including the removal of old backups
main_prepare(f, hs, app_path) ==
  LET Ended(f_, hs_, status) ==
        [fs |-> f_, handles |-> hs_, status |-> status]
  IN
  Bind({check_permission(f, app_path, FALSE)}, LAMBDA perm :
    IF perm.status # "ok" THEN Ended(f, hs, perm.status) ELSE
  Bind({extract_asar(mkdtemp(perm.fs), hs, TMP, app_path)}, LAMBDA ex :
    IF ex.status # "ok" THEN Ended(ex.fs, ex.handles, ex.status) ELSE
  Bind({read_slack_version(ex.fs, ex.dir)}, LAMBDA ver :
    IF ver.status # "ok" THEN Ended(ex.fs, ex.handles, ver.status) ELSE
  Bind({check_permission(Unlink(ex.fs, ex.dir), app_path, TRUE)},
       LAMBDA perm2 :
    IF perm2.status # "ok"
      THEN Ended(perm2.fs, ex.handles, perm2.status) ELSE
  Bind({is_previously_modified(perm2.fs, ex.handles, app_path)}, LAMBDA mod :
    IF mod.status # "ok" THEN Ended(perm2.fs, mod.handles, mod.status) ELSE
  Bind({IF mod.value
          THEN restore_from_backup(perm2.fs, mod.handles, app_path)
          ELSE [fs |-> perm2.fs, status |-> "ok"]}, LAMBDA res :
    IF res.status # "ok" THEN Ended(res.fs, mod.handles, res.status)
    ELSE Ended(remove_backup(res.fs, app_path), mod.handles, "ok")))))))

\* main from the second extract_asar to the end
main_inject(f, hs, app_path) ==
  LET Ended(f_, hs_, status) ==
        [fs |-> f_, handles |-> hs_, status |-> status, packed |-> <<>>]
  IN
  Bind({extract_asar(f, hs, TMP, app_path)}, LAMBDA ex :
    IF ex.status # "ok" THEN Ended(ex.fs, ex.handles, ex.status) ELSE
    IF DictHas(ex.reader.files.files, "MWSINJECT")
      THEN Ended(ex.fs, ex.handles, "AssertionError") ELSE
  Bind({read_slack_version(ex.fs, ex.dir)}, LAMBDA ver :
    IF ver.status # "ok" THEN Ended(ex.fs, ex.handles, ver.status) ELSE
    IF Unsupported(ver.version) THEN Ended(ex.fs, ex.handles, "exit") ELSE
  Bind({OpenForWrite(ex.fs, ex.dir \o <<"MWSINJECT">>)}, LAMBDA f1 :
  Bind({ex.dir \o <<"dist", "preload.bundle.js">>}, LAMBDA preload :
    IF ~isdir(f1, Parent(preload)) THEN Ended(f1, ex.handles, "IOError") ELSE
  Bind({IF isfile(f1, preload)
          THEN [f1 EXCEPT ![preload].data = @ \o InjectCode]
          ELSE Link(f1, preload, File(InjectCode, FALSE))}, LAMBDA f2 :
  Bind({Generator(get_unpackeds(ex.reader))}, LAMBDA unpackeds :
  Bind({pack(f2, ex.dir, app_path, unpackeds)}, LAMBDA r :
    [fs |-> IF r.status = "ok" THEN Unlink(r.fs, TMP) ELSE r.fs,
     handles |-> ex.handles,
     status |-> r.status,
     packed |-> <<[status |-> r.status,
                   directory |-> ex.dir,
                   source |-> Subtree(f2, ex.dir),
                   unpackeds |-> unpackeds,
                   fileinfos |-> r.fileinfos,
                   walk |-> r.walk,
                   json_header_bytes |-> r.json_header_bytes,
                   padding |-> r.padding,
                   baseoffset |-> r.baseoffset,
                   written |-> ReadAt(r.fs[Norm(app_path)].data, 16,
                                      Len(r.json_header_bytes)),
                   digest |-> r.digest]>>])))))))

----------------------------------------------------------------------------
(* The inputs: source trees, unpacked sets, archives of other writers *)

SRC == <<"src">>
ARCHIVE == <<"app.asar">>
SUPPORT == <<"app.asar.unpacked">>
DEST == <<"dest">>

\* the content of the file called name when it is n bytes long
Base == [a |-> 16, b |-> 32, c |-> 48, d |-> 64]
FileBytes(name, n) == [i \in 1..n |-> Base[name] + i]

\* src/{a, b, s/{t/{d}, c}}: sc.order is the order the OS lists src in
SourceTree(sc) ==
  (SRC :> Dir(sc.order)) @@
  (<<"src", "a">> :> File(FileBytes("a", sc.la), sc.execA)) @@
  (<<"src", "b">> :> File(FileBytes("b", 1), FALSE)) @@
  (<<"src", "s">> :> Dir(<<"t", "c">>)) @@
  (<<"src", "s", "c">> :> File(FileBytes("c", MaxFileLen), FALSE)) @@
  (<<"src", "s", "t">> :> Dir(<<"d">>)) @@
  (<<"src", "s", "t", "d">> :> File(FileBytes("d", 2), FALSE))

\* app.asar.unpacked: missing, empty, holding b only, or holding b and s/c
SupportTree(support) ==
  CASE support = "absent" -> <<>>
    [] support = "empty" -> (SUPPORT :> Dir(<<>>))
    [] support = "partial" ->
         (SUPPORT :> Dir(<<"b">>)) @@
         (SUPPORT \o <<"b">> :> File(FileBytes("b", 1), FALSE))
    [] support = "full" ->
         (SUPPORT :> Dir(<<"b", "s">>)) @@
         (SUPPORT \o <<"b">> :> File(FileBytes("b", 1), FALSE)) @@
         (SUPPORT \o <<"s">> :> Dir(<<"c">>)) @@
         (SUPPORT \o <<"s", "c">> :> File(FileBytes("c", MaxFileLen), FALSE))

\* the tree of an archive written by another asar tool: keys in insertion
\* order, unpacked entries inside a directory, no integrity records
ForeignTree ==
  [files |-> <<
     <<"s", [files |-> <<
        <<"c", [size |-> MaxFileLen, unpacked |-> TRUE]>>,
        <<"t", [files |-> <<
           <<"d", [size |-> 2, offset |-> Str(0)]>> >>]>> >>]>>,
     <<"b", [size |-> 1, unpacked |-> TRUE]>>,
     <<"a", [size |-> 1, offset |-> Str(2), executable |-> TRUE]>> >>]

\* the bytes of that archive; first is its first preamble field and delta the
\* difference of its second and third fields (4 and 4 in a well-formed one)
ForeignArchive(first, delta) ==
  LET text == JsonEncode(ForeignTree, FALSE)
      aligned == roundup(Len(text), 4)
  IN PackU32(first) \o PackU32(aligned + 4 + delta) \o PackU32(aligned + 4) \o
     PackU32(Len(text)) \o text \o [i \in 1..(aligned - Len(text)) |-> 0] \o
     FileBytes("d", 2) \o FileBytes("a", 1)

ArchiveFile(pre) ==
  CASE pre.kind = "absent" -> <<>>
    [] pre.kind = "short" -> (ARCHIVE :> File(<<4, 0, 0>>, FALSE))
    [] pre.kind = "foreign" ->
         (ARCHIVE :> File(ForeignArchive(pre.first, pre.delta), FALSE))

Absent == [kind |-> "absent"]
Foreign(first, delta) == [kind |-> "foreign", first |-> first, delta |-> delta]

Orders == {<<"a", "b", "s">>, <<"s", "b", "a">>}

UnpackedSets ==
  { <<>>, << <<"b">> >>, << <<"a">> >>, << <<"s", "c">> >>,
    << <<"s", "t", "d">> >>, << <<"b">>, <<"s", "c">> >> }

Scenario(pf, order, la, execA, unp, support, pre) ==
  [platform |-> pf, order |-> order, la |-> la, execA |-> execA,
   unpackeds |-> unp, support |-> support, pre |-> pre]

\* source trees and unpacked sets for pack
PackScenarios ==
  { Scenario("linux", order, la, TRUE, unp, "absent", Absent) :
      order \in Orders, la \in 0..MaxFileLen, unp \in UnpackedSets }

\* executable bits on the two kinds of platform
PlatformScenarios ==
  { Scenario(pf, <<"a", "b", "s">>, 1, execA, <<>>, "absent", Absent) :
      pf \in {"linux", "win32"}, execA \in BOOLEAN }

\* unpacked entries with and without their support files
SupportScenarios ==
  { Scenario("linux", <<"s", "b", "a">>, 2, FALSE, << <<"b">> >>, support, pre) :
      support \in {"absent", "empty", "partial", "full"},
      pre \in {Absent, Foreign(4, 4)} }

\* archives that open has to reject
MalformedScenarios ==
  { Scenario("linux", <<"a", "b", "s">>, 1, FALSE, <<>>, "absent", pre) :
      pre \in {[kind |-> "short"], Foreign(5, 4), Foreign(0, 0),
               Foreign(4, 0), Foreign(4, 8), Foreign(4, 3)} }

Scenarios ==
  PackScenarios \cup PlatformScenarios \cup SupportScenarios
    \cup MalformedScenarios

InitialFs(sc) ==
  LET top == <<"src">> \o
             (IF sc.pre.kind = "absent" THEN <<>> ELSE <<"app.asar">>) \o
             (IF sc.support = "absent" THEN <<>> ELSE <<"app.asar.unpacked">>)
  IN (<<>> :> Dir(top)) @@ SourceTree(sc) @@ ArchiveFile(sc.pre) @@
     SupportTree(sc.support)

\* no run of main in progress and none ended; original is the archive as it
\* is before the first run
NoRun(original) ==
  [pc |-> "idle", uninstall |-> FALSE, log |-> <<>>, original |-> original]

----------------------------------------------------------------------------
(* The caller: any sequence of pack, open, extract and __exit__ *)

Init ==
  \E sc \in Scenarios :
    /\ platform = sc.platform
    /\ packArg = Tuple(sc.unpackeds)
    /\ fs = InitialFs(sc)
    /\ handles = <<>>
    /\ reader = NoReader
    /\ lastOp = [op |-> "none", status |-> "ok"]
    /\ packLog = <<>>
    /\ openedAt = 0
    /\ extracts = 0
    /\ corrupted = <<>>
    /\ run = NoRun(<<>>)

\* AsarPacker().pack(SRC, ARCHIVE, packArg)
Pack ==
  /\ Len(packLog) < MaxPacks
  /\ \E r \in {pack(fs, SRC, ARCHIVE, packArg)} :
        /\ fs' = r.fs
        /\ packArg' = r.unpackeds
        /\ packLog' = Append(packLog,
             [status |-> r.status,
              directory |-> SRC,
              source |-> Subtree(fs, SRC),
              unpackeds |-> packArg,
              fileinfos |-> r.fileinfos,
              walk |-> r.walk,
              json_header_bytes |-> r.json_header_bytes,
              padding |-> r.padding,
              baseoffset |-> r.baseoffset,
              written |-> ReadAt(r.fs[ARCHIVE].data, 16,
                                 Len(r.json_header_bytes)),
              digest |-> r.digest])
        /\ lastOp' = [op |-> "pack", status |-> r.status]
  /\ corrupted' = <<>>
  /\ UNCHANGED <<platform, handles, reader, openedAt, extracts, run>>

\* main, after extract_asar has returned: asar_packer.pack(
\*   asar_extracted_dir, app_path, asar_extractor.get_unpackeds())
Repack ==
  /\ Len(packLog) < MaxPacks
  /\ lastOp.op = "extract"
  /\ lastOp.status = "ok"
  /\ \E unpackeds \in {Generator(get_unpackeds(reader))} :
       \E r \in {pack(fs, DEST, ARCHIVE, unpackeds)} :
        /\ fs' = r.fs
        /\ packLog' = Append(packLog,
             [status |-> r.status,
              directory |-> DEST,
              source |-> Subtree(fs, DEST),
              unpackeds |-> unpackeds,
              fileinfos |-> r.fileinfos,
              walk |-> r.walk,
              json_header_bytes |-> r.json_header_bytes,
              padding |-> r.padding,
              baseoffset |-> r.baseoffset,
              written |-> ReadAt(r.fs[ARCHIVE].data, 16,
                                 Len(r.json_header_bytes)),
              digest |-> r.digest])
        /\ lastOp' = [op |-> "repack", status |-> r.status]
  /\ corrupted' = <<>>
  /\ UNCHANGED <<platform, packArg, handles, reader, openedAt, extracts, run>>

\* reader = AsarExtractor.open(ARCHIVE)
Open ==
  /\ Len(handles) < MaxOpens
  /\ IF reader = NoReader THEN TRUE ELSE reader.asarfile = None
  /\ \E r \in {open(fs, handles, ARCHIVE)} :
        /\ handles' = r.handles
        /\ reader' = IF r.status = "ok" THEN r.reader ELSE reader
        /\ openedAt' = IF r.status = "ok" THEN Len(packLog) ELSE openedAt
        /\ lastOp' = [op |-> "open", status |-> r.status,
                      returned |-> r.reader]
  /\ UNCHANGED <<platform, packArg, fs, packLog, extracts, corrupted, run>>

\* reader.extract(DEST)
Extract ==
  /\ extracts < MaxExtracts
  /\ reader # NoReader
  /\ \E r \in {extract(reader, fs, handles, DEST)} :
        /\ fs' = r.fs
        /\ handles' = r.handles
        /\ lastOp' = [op |-> "extract", status |-> r.status,
                      warnings |-> r.warnings]
  /\ extracts' = extracts + 1
  /\ UNCHANGED <<platform, packArg, reader, packLog, openedAt, corrupted,
                 run>>

\* the end of a with statement on the reader, or a later one
Exit ==
  /\ reader # NoReader
  /\ \E r \in {__exit__(reader, handles)} :
        /\ reader' = r.reader
        /\ handles' = r.handles
        /\ lastOp' = [op |-> "exit", status |-> r.status]
  /\ UNCHANGED <<platform, packArg, fs, packLog, openedAt, extracts, corrupted,
                 run>>

Next == Pack \/ Open \/ Extract \/ Exit \/ Repack

Spec == Init /\ [][Next]_vars

\* The same caller next to a program that damages the archive: one byte of
\* the body pack wrote is changed before the archive is extracted.
CorruptScenarios ==
  { Scenario("linux", order, la, FALSE, unp, "absent", Absent) :
      order \in Orders, la \in {0, MaxFileLen},
      unp \in { <<>>, << <<"b">> >> } }

InitCorrupt ==
  \E sc \in CorruptScenarios :
    /\ platform = sc.platform
    /\ packArg = Tuple(sc.unpackeds)
    /\ fs = InitialFs(sc)
    /\ handles = <<>>
    /\ reader = NoReader
    /\ lastOp = [op |-> "none", status |-> "ok"]
    /\ packLog = <<>>
    /\ openedAt = 0
    /\ extracts = 0
    /\ corrupted = <<>>
    /\ run = NoRun(<<>>)

Corrupt ==
  /\ corrupted = <<>>
  /\ extracts = 0
  /\ Len(packLog) > 0
  /\ packLog[Len(packLog)].status = "ok"
  /\ \E pos \in packLog[Len(packLog)].baseoffset..(Len(fs[ARCHIVE].data) - 1) :
        /\ fs' = [fs EXCEPT ![ARCHIVE].data[pos + 1] = (@ + 1) % 256]
        /\ corrupted' = <<pos>>
  /\ lastOp' = [op |-> "corrupt", status |-> "ok"]
  /\ UNCHANGED <<platform, packArg, handles, reader, packLog, openedAt,
                 extracts, run>>

NextCorrupt == Pack \/ Open \/ Extract \/ Exit \/ Corrupt

SpecCorrupt == InitCorrupt /\ [][NextCorrupt]_vars

----------------------------------------------------------------------------
(* main, run again and again on one installation of Slack *)

MaxRuns == 3

BACKUP == get_backup_path(ARCHIVE)

PackageJson(version) == version
PreloadBundle == <<112, 59>>

\* the tree of the archive Slack ships: package.json, dist/preload.bundle.js
\* and, by variant, unpacked entries at the top and inside a directory
MainTree(variant) ==
  [files |->
     << <<"package.json", [size |-> 2, offset |-> Str(0)]>>,
        <<"dist", [files |-> <<
           <<"preload.bundle.js", [size |-> 2, offset |-> Str(2)]>> >>]>> >> \o
     (IF variant \in {"top", "both"}
        THEN << <<"b", [size |-> 1, unpacked |-> TRUE]>> >> ELSE <<>>) \o
     (IF variant \in {"nested", "both"}
        THEN << <<"s", [files |-> <<
                  <<"c", [size |-> MaxFileLen, unpacked |-> TRUE]>> >>]>> >>
        ELSE <<>>)]

MainArchive(variant, version) ==
  LET text == JsonEncode(MainTree(variant), FALSE)
      aligned == roundup(Len(text), 4)
  IN PackU32(4) \o PackU32(aligned + 8) \o PackU32(aligned + 4) \o
     PackU32(Len(text)) \o text \o [i \in 1..(aligned - Len(text)) |-> 0] \o
     PackageJson(version) \o PreloadBundle

MainSupport(variant) ==
  CASE variant = "none" -> (SUPPORT :> Dir(<<>>))
    [] variant = "top" -> SupportTree("partial")
    [] variant = "nested" ->
         (SUPPORT :> Dir(<<"s">>)) @@
         (SUPPORT \o <<"s">> :> Dir(<<"c">>)) @@
         (SUPPORT \o <<"s", "c">> :> File(FileBytes("c", MaxFileLen), FALSE))
    [] variant = "both" -> SupportTree("full")

\* Slack versions on both sides of the 4.4 limit
MainScenarios ==
  { [platform |-> pf, variant |-> variant, version |-> version] :
      pf \in {"linux", "win32"},
      variant \in {"none", "top", "nested", "both"},
      version \in {<<4, 29>>, <<4, 5>>, <<4, 4>>} }

InitMain ==
  \E sc \in MainScenarios :
    /\ platform = sc.platform
    /\ packArg = Tuple(<<>>)
    /\ fs = (<<>> :> Dir(<<"app.asar", "app.asar.unpacked">>)) @@
            (ARCHIVE :> File(MainArchive(sc.variant, sc.version), FALSE)) @@
            MainSupport(sc.variant)
    /\ handles = <<>>
    /\ reader = NoReader
    /\ lastOp = [op |-> "none", status |-> "ok"]
    /\ packLog = <<>>
    /\ openedAt = 0
    /\ extracts = 0
    /\ corrupted = <<>>
    /\ run = NoRun(MainArchive(sc.variant, sc.version))

\* the run has ended: its outcome is logged and the process is gone
EndRun(mode, status) ==
  [run EXCEPT !.pc = "idle",
              !.log = Append(@, [mode |-> mode, status |-> status])]

\* python math-with-slack.py [-u]: a run of main up to sys.exit(0) of an
\* uninstall, or up to the first make_backup of an install
MainPrepare ==
  /\ run.pc = "idle"
  /\ Len(run.log) < MaxRuns
  /\ \E uninstall \in BOOLEAN :
       \E r \in {main_prepare(fs, <<>>, ARCHIVE)} :
         LET mode == IF uninstall THEN "uninstall" ELSE "install"
         IN /\ fs' = r.fs
            /\ IF r.status # "ok" \/ uninstall
                 THEN /\ run' = EndRun(mode, r.status)
                      /\ handles' = CloseAll(r.handles)
                 ELSE /\ run' = [run EXCEPT !.pc = "prepared",
                                            !.uninstall = uninstall]
                      /\ handles' = r.handles
            /\ lastOp' = [op |-> "main_prepare", status |-> r.status]
  /\ UNCHANGED <<platform, packArg, reader, packLog, openedAt, extracts,
                 corrupted>>

\* for file in files_to_modify: make_backup(file)
MainBackup ==
  /\ run.pc = "prepared"
  /\ \E r \in {make_backup(fs, ARCHIVE)} :
       /\ fs' = r.fs
       /\ IF r.status # "ok"
            THEN /\ run' = EndRun("install", r.status)
                 /\ handles' = CloseAll(handles)
            ELSE /\ run' = [run EXCEPT !.pc = "backed_up"]
                 /\ handles' = handles
       /\ lastOp' = [op |-> "make_backup", status |-> r.status]
  /\ UNCHANGED <<platform, packArg, reader, packLog, openedAt, extracts,
                 corrupted>>

\* the rest of an install: extract, assert, inject, pack, sys.exit(0)
MainInject ==
  /\ run.pc = "backed_up"
  /\ \E r \in {main_inject(fs, handles, ARCHIVE)} :
       /\ fs' = r.fs
       /\ handles' = CloseAll(r.handles)
       /\ packLog' = packLog \o r.packed
       /\ run' = EndRun("install", r.status)
       /\ lastOp' = [op |-> "main_inject", status |-> r.status]
  /\ UNCHANGED <<platform, packArg, reader, openedAt, extracts, corrupted>>

NextMain == MainPrepare \/ MainBackup \/ MainInject

SpecMain == InitMain /\ [][NextMain]_vars

----------------------------------------------------------------------------
(* Properties *)

\* every <<path, fileinfo>> leaf of a tree, in Tree-Walker order
Leaves(tree) == _walk_fileinfos(tree, <<".">>, FALSE)
HasOffset(fileinfo) == "offset" \in DOMAIN fileinfo
HasIntegrity(fileinfo) == "integrity" \in DOMAIN fileinfo
InUnpackeds(entry, rel) == Contains(entry.unpackeds, rel)

\* the regular files below directory in the recorded source tree, as paths
\* relative to it
FilesOf(source, directory) ==
  {SubSeq(p, Len(directory) + 1, Len(p)) :
     p \in {q \in DOMAIN source : source[q].kind = "file"}}

\* the extract that ran last had an open reader on the archive written by
\* the last call of pack, and a destination that did not exist
ExtractedAfterPack ==
  /\ lastOp.op = "extract"
  /\ lastOp.status # "OSError"
  /\ reader.asarfile # None
  /\ Len(packLog) > 0
  /\ openedAt = Len(packLog)

\* C1: after pack(T, A, unpackeds) and open(A).extract(T') on a fresh
\* destination, both complete and every file of T that is not listed as
\* unpacked is in T' with the same bytes and, except on Windows, the same
\* owner-executable bit.
C1_RoundTrip ==
  /\ \A i \in 1..Len(packLog) : packLog[i].status = "ok"
  /\ ExtractedAfterPack =>
       /\ lastOp.status = "ok"
       /\ LET entry == packLog[Len(packLog)]
          IN \A rel \in FilesOf(entry.source, entry.directory) :
               InUnpackeds(entry, rel) \/
                 /\ isfile(fs, DEST \o rel)
                 /\ fs[DEST \o rel].data = entry.source[SRC \o rel].data
                 /\ platform # "win32" =>
                      fs[DEST \o rel].exec = entry.source[SRC \o rel].exec

\* C2: with ignore_unpacked true, _walk_fileinfos yields no leaf whose
\* unpacked flag is true, at any depth (here: the walk pack iterates to write
\* the file contents).
C2_WalkSkipsUnpacked ==
  \A i \in 1..Len(packLog) :
    \A k \in 1..Len(packLog[i].walk) : ~is_unpacked(packLog[i].walk[k][2])

\* C3: in the tree pack builds, the leaves are the regular files of the source
\* directory; a file listed as unpacked has unpacked = true, no offset and no
\* integrity record, and every other file has an offset, a size and an
\* integrity record.
C3_UnpackedEntries ==
  \A i \in 1..Len(packLog) :
    LET entry == packLog[i]
        leaves == Leaves(entry.fileinfos)
    IN /\ {Tail(leaves[k][1]) : k \in 1..Len(leaves)} =
            FilesOf(entry.source, entry.directory)
       /\ \A k \in 1..Len(leaves) :
            LET fileinfo == leaves[k][2]
            IN IF InUnpackeds(entry, Tail(leaves[k][1]))
                 THEN /\ is_unpacked(fileinfo)
                      /\ ~HasOffset(fileinfo)
                      /\ ~HasIntegrity(fileinfo)
                 ELSE /\ HasOffset(fileinfo)
                      /\ "size" \in DOMAIN fileinfo
                      /\ HasIntegrity(fileinfo)

\* C4: every FileEntry of the tree pack builds has an offset or has
\* unpacked = true, and never both.
C4_OffsetXorUnpacked ==
  \A i \in 1..Len(packLog) :
    LET leaves == Leaves(packLog[i].fileinfos)
    IN \A k \in 1..Len(leaves) :
         HasOffset(leaves[k][2]) # is_unpacked(leaves[k][2])

C4_Witness ==
  \E i \in 1..Len(packLog) :
    LET leaves == Leaves(packLog[i].fileinfos)
    IN /\ \E k \in 1..Len(leaves) : is_unpacked(leaves[k][2])
       /\ \E k \in 1..Len(leaves) : HasOffset(leaves[k][2])

\* the packed leaves of a tree, in Tree-Walker order
PackedLeaves(tree) == SelectSeq(Leaves(tree), LAMBDA v : HasOffset(v[2]))

\* C5: in Tree-Walker order over the tree pack builds, the first packed entry
\* has offset 0 and every later packed entry starts where the packed entry
\* before it ends; unpacked entries add nothing to the running offset.
C5_OffsetContiguity ==
  \A i \in 1..Len(packLog) :
    LET packed == PackedLeaves(packLog[i].fileinfos)
    IN /\ packed # <<>> => Int_(packed[1][2].offset) = 0
       /\ \A k \in 1..(Len(packed) - 1) :
            Int_(packed[k + 1][2].offset) =
              Int_(packed[k][2].offset) + packed[k][2].size

\* a non-empty unpacked entry lies between two non-empty packed entries
C5_Witness ==
  \E i \in 1..Len(packLog) :
    LET leaves == Leaves(packLog[i].fileinfos)
    IN \E k1, k2, k3 \in 1..Len(leaves) :
         /\ k1 < k2 /\ k2 < k3
         /\ HasOffset(leaves[k1][2]) /\ leaves[k1][2].size > 0
         /\ is_unpacked(leaves[k2][2]) /\ leaves[k2][2].size > 0
         /\ HasOffset(leaves[k3][2]) /\ leaves[k3][2].size > 0

\* the first three preamble fields of the archive on disk
Field(n) == UnpackU32(SubSeq(fs[ARCHIVE].data, 4 * n - 3, 4 * n))
MalformedPreamble ==
  /\ isfile(fs, ARCHIVE)
  /\ Len(fs[ARCHIVE].data) >= 16
  /\ Field(1) # 4 \/ Field(2) # Field(3) + 4

\* C6: open fails on an archive whose first preamble field is not 4 or whose
\* second field is not the third plus 4; it then returns no reader, so that
\* no tree and no body offset are retained.
C6_MalformedRejected ==
  (lastOp.op = "open" /\ MalformedPreamble) =>
    /\ lastOp.status # "ok"
    /\ lastOp.returned = NoReader
    /\ IF reader = NoReader THEN TRUE ELSE reader.asarfile = None

\* open has run on an archive whose only fault is that the second field is
\* not the third plus 4
C6_Witness ==
  /\ lastOp.op = "open"
  /\ MalformedPreamble
  /\ Field(1) = 4

\* C7: a file object that is still open belongs to the reader the caller
\* holds: after an operation has returned or failed, no other stays open.
C7_HandlesReleased ==
  \A h \in 1..Len(handles) :
    ~handles[h].closed =>
      IF reader = NoReader THEN FALSE ELSE reader.asarfile = h

C9_MissingSupportSkipped ==
  (lastOp.op = "extract" /\ lastOp.status # "OSError"
     /\ reader.asarfile # None) =>
    /\ lastOp.status = "ok"
    /\ LET leaves == Leaves(reader.files)
       IN \A k \in 1..Len(leaves) :
            LET path == leaves[k][1]
            IN IF is_unpacked(leaves[k][2]) /\ ~isfile(fs, SUPPORT \o path)
                 THEN /\ \E w \in 1..Len(lastOp.warnings) :
                           lastOp.warnings[w] = path
                      /\ ~exists(fs, DEST \o path)
                 ELSE isfile(fs, DEST \o path)

\* an entry was skipped and an entry visited after it was materialised
C9_Witness ==
  /\ lastOp.op = "extract"
  /\ lastOp.status = "ok"
  /\ LET leaves == Leaves(reader.files)
     IN \E k1, k2 \in 1..Len(leaves) :
          /\ k1 < k2
          /\ \E w \in 1..Len(lastOp.warnings) :
               lastOp.warnings[w] = leaves[k1][1]
          /\ isfile(fs, DEST \o leaves[k2][1])

C11_IntegrityVerification ==
  (ExtractedAfterPack /\ lastOp.status = "ok"
     /\ packLog[Len(packLog)].status = "ok") =>
    LET packed == PackedLeaves(reader.files)
        Rehash(k) == HexDigest(Sha256(fs[Norm(DEST \o packed[k][1])].data))
        Mismatch == {k \in 1..Len(packed) :
                       Rehash(k) # packed[k][2].integrity.hash}
        Hit == {k \in 1..Len(packed) :
                  LET rel == corrupted[1] - reader.baseoffset
                      start == Int_(packed[k][2].offset)
                  IN start <= rel /\ rel < start + packed[k][2].size}
    IN IF corrupted = <<>> THEN Mismatch = {}
       ELSE Cardinality(Mismatch) = 1 /\ Mismatch = Hit

\* an archive with several non-empty packed files was extracted after one
\* byte of its body was changed
C11_Witness ==
  /\ ExtractedAfterPack /\ lastOp.status = "ok"
  /\ packLog[Len(packLog)].status = "ok"
  /\ corrupted # <<>>
  /\ LET packed == PackedLeaves(reader.files)
     IN Cardinality({k \in 1..Len(packed) : packed[k][2].size > 0}) >= 2

\* the call of pack that wrote the archive on disk
LastPack == packLog[Len(packLog)]

C13_PreambleInvariants ==
  Len(packLog) > 0 =>
    /\ Field(1) = 4
    /\ Field(2) = Field(3) + 4
    /\ Field(4) <= Field(3)
    /\ lastOp.op = "open" =>
         lastOp.status \notin {"AssertionError", "struct.error"}

\* open has run on an archive that pack wrote
C13_Witness ==
  /\ Len(packLog) > 0
  /\ lastOp.op = "open"
  /\ lastOp.status = "ok"

\* C14: the number p of NUL bytes after a JSON text of L bytes satisfies
\* 0 <= p < 4 and (L + p) % 4 = 0; the padded header ends at the body offset
\* that pack and open both compute, and the body starts there with no gap.
C14_PaddingAndBodyOffset ==
  /\ \A i \in 1..Len(packLog) :
       LET L == Len(packLog[i].json_header_bytes)
           p == Len(packLog[i].padding)
       IN /\ p >= 0 /\ p < 4
          /\ (L + p) % 4 = 0
          /\ 16 + L + p = packLog[i].baseoffset
  /\ Len(packLog) > 0 =>
       LET L == Len(LastPack.json_header_bytes)
           data == fs[ARCHIVE].data
       IN /\ \A k \in (16 + L + 1)..LastPack.baseoffset : data[k] = 0
          /\ ReadAt(data, 16, L) = LastPack.json_header_bytes
          /\ LastPack.status = "ok" =>
               Len(data) = LastPack.baseoffset +
                             EndOffset(Leaves(LastPack.fileinfos))
          /\ (reader # NoReader /\ openedAt = Len(packLog)) =>
               reader.baseoffset = LastPack.baseoffset

\* a reader is open on an archive of pack that has padding and a body
C14_Witness ==
  /\ Len(packLog) > 0
  /\ LastPack.status = "ok"
  /\ Len(LastPack.padding) > 0
  /\ reader # NoReader
  /\ openedAt = Len(packLog)
  /\ EndOffset(Leaves(LastPack.fileinfos)) > 0

\* C15: __exit__ raises nothing and leaves the reader Closed with its file
\* object released; on a Closed reader it changes nothing; a Closed reader
\* stays Closed and a released file object stays released.
C15_ReaderLifecycle ==
  [][/\ lastOp'.op = "exit" =>
          /\ lastOp'.status = "ok"
          /\ reader'.asarfile = None
          /\ IF reader.asarfile = None
               THEN reader' = reader /\ handles' = handles
               ELSE handles'[reader.asarfile].closed
     /\ \A h \in 1..Len(handles) : handles[h].closed => handles'[h].closed
     /\ IF reader = NoReader THEN TRUE
        ELSE (reader.asarfile = None /\ lastOp'.op # "open") =>
               reader'.asarfile = None]_vars

\* __exit__ has run on a reader that open returned
C15_Witness ==
  /\ lastOp.op = "exit"
  /\ reader.asarfile = None
  /\ \E h \in 1..Len(handles) : handles[h].closed

\* the reader was opened on the archive that the last call of pack wrote
ReaderOnLastPack ==
  /\ Len(packLog) > 0
  /\ reader # NoReader
  /\ openedAt = Len(packLog)

\* the offsets of the packed entries of a tree, in Tree-Walker order
Offsets(tree) ==
  LET packed == PackedLeaves(tree)
  IN [k \in 1..Len(packed) |-> Int_(packed[k][2].offset)]

NonDecreasing(seq) ==
  \A k \in 1..(Len(seq) - 1) : seq[k] <= seq[k + 1]

\* C16 as stated: walking the tree stored in the archive, as open decodes
\* it, visits the packed entries in increasing offset order.
C16_StoredOrderIsOffsetOrder ==
  ReaderOnLastPack => NonDecreasing(Offsets(reader.files))

\* C16 amended: walking the tree pack builds in memory visits the packed
\* entries in the order their offsets were assigned; the stored tree holds
\* the same entries with the same offsets.
C16_BuiltOrderIsOffsetOrder ==
  /\ \A i \in 1..Len(packLog) : NonDecreasing(Offsets(packLog[i].fileinfos))
  /\ ReaderOnLastPack =>
       LET stored == Leaves(reader.files)
           built == Leaves(LastPack.fileinfos)
       IN {stored[k] : k \in 1..Len(stored)} =
            {built[k] : k \in 1..Len(built)}

\* the stored tree is walked in another order than the tree pack built
C16_Witness ==
  /\ ReaderOnLastPack
  /\ LastPack.status = "ok"
  /\ ~NonDecreasing(Offsets(reader.files))
  /\ Leaves(reader.files) # Leaves(LastPack.fileinfos)

\* C17 as stated: in the tree pack builds, of any two packed entries the one
\* visited later has the strictly greater offset.
C17_StrictlyIncreasing ==
  \A i \in 1..Len(packLog) :
    LET offsets == Offsets(packLog[i].fileinfos)
    IN \A k, l \in 1..Len(offsets) : k < l => offsets[k] < offsets[l]

\* C17 amended: of any two packed entries the one visited later starts at or
\* after the end of the earlier one, so its offset is strictly greater when
\* the earlier entry is not empty and may be equal when it is empty.
C17_IncreasingBySize ==
  \A i \in 1..Len(packLog) :
    LET packed == PackedLeaves(packLog[i].fileinfos)
    IN \A k, l \in 1..Len(packed) :
         k < l =>
           /\ Int_(packed[l][2].offset) >=
                Int_(packed[k][2].offset) + packed[k][2].size
           /\ packed[k][2].size > 0 =>
                Int_(packed[l][2].offset) > Int_(packed[k][2].offset)

\* an empty packed file is followed by a packed file with the same offset,
\* and a non-empty one by a packed file with a greater offset
C17_Witness ==
  \E i \in 1..Len(packLog) :
    LET packed == PackedLeaves(packLog[i].fileinfos)
    IN /\ \E k \in 1..(Len(packed) - 1) :
            /\ packed[k][2].size = 0
            /\ packed[k + 1][2].offset = packed[k][2].offset
       /\ \E k \in 1..(Len(packed) - 1) : packed[k][2].size > 0

\* the leaves of a built tree that carry an integrity record
HashedLeaves(tree) == SelectSeq(Leaves(tree), LAMBDA v : HasIntegrity(v[2]))

\* C18: for a file of n bytes and block size B, the integrity record holds
\* ceil(n / B) block digests, the i-th being the digest of bytes
\* [i * B, min((i + 1) * B, n)) counted from 0; the hash is the digest of all
\* n bytes, and an empty file has no blocks.
C18_BlockHashing ==
  \A i \in 1..Len(packLog) :
    LET entry == packLog[i]
        hashed == HashedLeaves(entry.fileinfos)
    IN \A k \in 1..Len(hashed) :
         LET data == entry.source[entry.directory \o Tail(hashed[k][1])].data
             integrity == hashed[k][2].integrity
             n == Len(data)
             B == integrity.blockSize
             End(j) == IF j * B < n THEN j * B ELSE n
         IN /\ B = BLOCK_SIZE
            /\ hashed[k][2].size = n
            /\ Len(integrity.blocks) = (n + B - 1) \div B
            /\ \A j \in 1..Len(integrity.blocks) :
                 integrity.blocks[j] =
                   HexDigest(Sha256(SubSeq(data, (j - 1) * B + 1, End(j))))
            /\ integrity.hash = HexDigest(Sha256(data))
            /\ n = 0 => integrity.blocks = <<>>

\* pack hashed an empty file and a file whose last block is short
C18_Witness ==
  \E i \in 1..Len(packLog) :
    LET hashed == HashedLeaves(packLog[i].fileinfos)
    IN /\ \E k \in 1..Len(hashed) : hashed[k][2].size = 0
       /\ \E k \in 1..Len(hashed) :
            /\ Len(hashed[k][2].integrity.blocks) >= 2
            /\ hashed[k][2].size % BLOCK_SIZE # 0

\* the node that the names lead to from the root of a tree, or Missing
Missing == [missing |-> TRUE]
RECURSIVE NodeAt(_, _)
NodeAt(node, names) ==
  IF names = <<>> THEN node
  ELSE IF "files" \notin DOMAIN node THEN Missing
  ELSE LET hits == {i \in 1..Len(node.files) : node.files[i][1] = Head(names)}
       IN IF hits = {} THEN Missing
          ELSE NodeAt(node.files[CHOOSE i \in hits : TRUE][2], Tail(names))

\* the number of FileEntry leaves of a tree
RECURSIVE CountLeaves(_)
CountLeaves(node) ==
  IF "files" \notin DOMAIN node THEN 1
  ELSE LET Sum[i \in 0..Len(node.files)] ==
             IF i = 0 THEN 0 ELSE Sum[i - 1] + CountLeaves(node.files[i][2])
       IN Sum[Len(node.files)]

\* the place of a name among the keys of a directory
KeyIndex(dir, name) ==
  CHOOSE i \in 1..Len(dir.files) : dir.files[i][1] = name

\* p is visited before q in depth-first pre-order over stored key order
Before(tree, p, q) ==
  \E j \in 1..Len(p) :
    /\ j <= Len(q)
    /\ SubSeq(p, 1, j - 1) = SubSeq(q, 1, j - 1)
    /\ p[j] # q[j]
    /\ LET dir == NodeAt(tree, SubSeq(p, 1, j - 1))
       IN KeyIndex(dir, p[j]) < KeyIndex(dir, q[j])

\* the walk of a tree yields each leaf once, under its joined path, in
\* depth-first pre-order
WalksEveryLeafOnce(tree) ==
  LET walk == _walk_fileinfos(tree, <<".">>, FALSE)
  IN /\ Len(walk) = CountLeaves(tree)
     /\ \A k \in 1..Len(walk) :
          /\ Head(walk[k][1]) = "."
          /\ NodeAt(tree, Tail(walk[k][1])) = walk[k][2]
          /\ "files" \notin DOMAIN walk[k][2]
     /\ \A k, l \in 1..Len(walk) :
          k < l => Before(tree, Tail(walk[k][1]), Tail(walk[l][1]))

\* C19: with ignore_unpacked false, _walk_fileinfos yields every FileEntry
\* leaf exactly once, paired with the path that joins the names from the
\* root to the leaf, in depth-first pre-order over stored key order; this
\* holds of the trees pack builds and of the tree a reader holds.
C19_WalkerTotality ==
  /\ \A i \in 1..Len(packLog) : WalksEveryLeafOnce(packLog[i].fileinfos)
  /\ reader # NoReader => WalksEveryLeafOnce(reader.files)

\* a reader holds a tree with unpacked leaves inside a directory, and pack
\* has built a tree
C19_Witness ==
  /\ Len(packLog) > 0
  /\ reader # NoReader
  /\ \E k \in 1..Len(Leaves(reader.files)) :
       /\ is_unpacked(Leaves(reader.files)[k][2])
       /\ Len(Leaves(reader.files)[k][1]) > 2

\* C20: when pack is given the generator of get_unpackeds, every file that
\* the generator names and that is in the directory being packed is flagged
\* unpacked, with no offset, in the tree pack builds.
C20_GeneratorUnpackeds ==
  \A i \in 1..Len(packLog) :
    LET entry == packLog[i]
    IN entry.unpackeds.kind = "generator" =>
         \A u \in 1..Len(entry.unpackeds.items) :
           LET rel == entry.unpackeds.items[u]
           IN rel \in FilesOf(entry.source, entry.directory) =>
                /\ is_unpacked(NodeAt(entry.fileinfos, rel))
                /\ ~HasOffset(NodeAt(entry.fileinfos, rel))

\* every run that has ended ran to its sys.exit(0)
Completed(log) == \A i \in 1..Len(log) : log[i].status = "ok"

\* the last run that ended
LastRun == run.log[Len(run.log)]

\* the bytes the archive on disk holds for dist/preload.bundle.js, found
\* through the tree of the pack that wrote the archive
PreloadInArchive ==
  LET node == NodeAt(LastPack.fileinfos, <<"dist", "preload.bundle.js">>)
  IN IF ~HasOffset(node) THEN <<>>
     ELSE ReadAt(fs[ARCHIVE].data, LastPack.baseoffset + Int_(node.offset),
                 node.size)

\* C21: as long as every run of main has completed, no run fails the
\* assertion that the archive extracted for injection has no MWSINJECT entry,
\* and after a completed install the archive has the MWSINJECT entry and its
\* dist/preload.bundle.js is the original file followed by the injected code
\* once.
C21_InjectedOnce ==
  /\ \A i \in 1..Len(run.log) :
       Completed(SubSeq(run.log, 1, i - 1)) =>
         run.log[i].status # "AssertionError"
  /\ (run.pc = "idle" /\ Len(run.log) > 0 /\ Completed(run.log)
        /\ LastRun.mode = "install") =>
       /\ DictHas(LastPack.fileinfos.files, "MWSINJECT")
       /\ PreloadInArchive = PreloadBundle \o InjectCode

\* an install that completed on top of an earlier completed install
C21_Witness ==
  /\ run.pc = "idle"
  /\ Len(run.log) >= 2
  /\ Completed(run.log)
  /\ LastRun.mode = "install"
  /\ run.log[Len(run.log) - 1].mode = "install"

\* C22: after an uninstall run that follows a completed install run, app.asar
\* is byte for byte the archive as it was before the first run and there is
\* no app.asar.mwsbak; and whenever app.asar.mwsbak exists it holds that
\* original archive.
C22_UninstallRestores ==
  /\ (run.pc = "idle" /\ Len(run.log) >= 2 /\ LastRun.mode = "uninstall"
        /\ \E i \in 1..(Len(run.log) - 1) :
             run.log[i].mode = "install" /\ run.log[i].status = "ok") =>
       /\ isfile(fs, ARCHIVE)
       /\ fs[ARCHIVE].data = run.original
       /\ ~exists(fs, BACKUP)
  /\ exists(fs, BACKUP) => fs[BACKUP].data = run.original

====
